---- MODULE Spec2Model ----
(***************************************************************************)
(* Model of atscheck.py: the ATS checker for .ipa archives.                *)
(*                                                                         *)
(* Python values are written as their repr: "None", "True", "False", "0",  *)
(* "1", "''", "'NO'", "'TLSv1.0'" ...  A dict is a function whose DOMAIN   *)
(* is the set of keys that are present.  Domain names (dict keys that are  *)
(* sorted and compared) are tuples of code points, so that sorted() and == *)
(* are computed as Python computes them.  Archive member paths are tuples  *)
(* of tokens ("Payload", "/", "A", ".app", ...), the unit fnmatch's        *)
(* literal pattern pieces align with.                                      *)
(*                                                                         *)
(* The manifests enumerated are Manifest Trees as the decoder's contract    *)
(* gives them: the root, the security section, the exception-domains entry *)
(* and every domain entry are mappings, and a flag's value is a boolean, a *)
(* number or a string.  The content of an archive member is drawn when run *)
(* reads it; run reads each located member once.                           *)
(***************************************************************************)
EXTENDS Integers, Sequences, FiniteSets, TLC

VARIABLES
    pl,            \* summarize_pl: the decoded manifest given to it
    summary,       \* summarize_pl: its return value
    namelist,      \* z.namelist(): member paths in archive order
    ordered,       \* find_all_info_plists: its return value
    ipa_kind,      \* what ipa_path points at
    filter_domain, \* run: argument
    json_mode,     \* run: argument
    pc,            \* position of the running entry point
    plist_paths,   \* run: local
    idx,           \* run: loop position in plist_paths (1-based, next to parse)
    decoded,       \* run: per located member read so far, whether it decoded and to which tree
    results,       \* run: local list of {"info_plist": p, **summary}
    stderr,        \* run: diagnostics written to sys.stderr, in order
    stdout,        \* run: the format printed and the info_plist of each manifest shown, in order
    insecure,      \* run: local
    rc             \* run: return value / process exit status

vars == <<pl, summary, namelist, ordered, ipa_kind, filter_domain,
          json_mode, pc, plist_paths, idx, decoded, results, stderr, stdout,
          insecure, rc>>

-----------------------------------------------------------------------------
(* Python value helpers *)

EmptyDict == [k \in {} |-> "None"]

\* the falsy reprs among the scalar values the model uses
PyFalsy == {"None", "False", "0", "''"}

\* bool(v) is True
Truthy(v) == v \notin PyFalsy

\* bool(v)
PyBool(v) == IF Truthy(v) THEN "True" ELSE "False"

PyOr_second(a, b) == IF Truthy(b) THEN b ELSE a

\* a or b
PyOr(a, b) == IF Truthy(a) THEN a ELSE b

\* d.get(k)
Get(d, k) == IF k \in DOMAIN d THEN d[k] ELSE "None"

\* d.get(k, {}) or {}
GetDictOrEmpty(d, k) ==
    LET v == IF k \in DOMAIN d THEN d[k] ELSE EmptyDict
    IN  IF v = EmptyDict THEN EmptyDict ELSE v

-----------------------------------------------------------------------------
(* keys *)

ATS_TOP_KEYS == <<"NSAllowsArbitraryLoads",
                  "NSAllowsArbitraryLoadsInWebContent",
                  "NSAllowsArbitraryLoadsForMedia">>

DOMAIN_KEYS == <<"NSExceptionAllowsInsecureHTTPLoads",
                 "NSTemporaryExceptionAllowsInsecureHTTPLoads",
                 "NSIncludesSubdomains",
                 "NSRequiresCertificateTransparency",
                 "NSExceptionMinimumTLSVersion",
                 "NSTemporaryExceptionMinimumTLSVersion",
                 "NSExceptionRequiresForwardSecrecy",
                 "NSTemporaryExceptionRequiresForwardSecrecy">>

Range(s) == {s[i] : i \in 1..Len(s)}

-----------------------------------------------------------------------------
(* sorted(exc.items()): ascending by key, str compared by code point *)

RECURSIVE StrLt(_, _)
StrLt(a, b) ==
    IF a = <<>> THEN b # <<>>
    ELSE IF b = <<>> THEN FALSE
    ELSE IF Head(a) # Head(b) THEN Head(a) < Head(b)
    ELSE StrLt(Tail(a), Tail(b))

RECURSIVE SortedKeys_unsorted(_)
SortedKeys_unsorted(S) ==
    IF S = {} THEN <<>>
    ELSE LET m == CHOOSE x \in S : \A y \in S : y = x \/ StrLt(y, x)
         IN  <<m>> \o SortedKeys_unsorted(S \ {m})

RECURSIVE SortedKeys(_)
SortedKeys(S) ==
    IF S = {} THEN <<>>
    ELSE LET m == CHOOSE x \in S : \A y \in S : y = x \/ StrLt(x, y)
         IN  <<m>> \o SortedKeys(S \ {m})

-----------------------------------------------------------------------------
(* summarize_pl *)

RowKeys == {"domain"} \cup Range(DOMAIN_KEYS)
              \cup {"effective_http_permitted", "MinimumTLSVersionEffective"}

row_of_noGlobal(dname, cfg, top) ==
    LET raw == [k \in Range(DOMAIN_KEYS) |-> Get(cfg, k)]
        http_domain == PyOr(PyBool(raw["NSExceptionAllowsInsecureHTTPLoads"]),
                            PyBool(raw["NSTemporaryExceptionAllowsInsecureHTTPLoads"]))
    IN  [k \in RowKeys |->
            IF k = "domain" THEN dname
            ELSE IF k = "effective_http_permitted" THEN PyBool(http_domain)
            ELSE IF k = "MinimumTLSVersionEffective"
                 THEN PyOr(raw["NSExceptionMinimumTLSVersion"],
                           raw["NSTemporaryExceptionMinimumTLSVersion"])
            ELSE raw[k]]

\* the body of the loop at lines 90-97: the row built for one domain entry
row_of(dname, cfg, top) ==
    LET raw == [k \in Range(DOMAIN_KEYS) |-> Get(cfg, k)]
        http_domain == PyOr(PyBool(raw["NSExceptionAllowsInsecureHTTPLoads"]),
                            PyBool(raw["NSTemporaryExceptionAllowsInsecureHTTPLoads"]))
        http_global == PyBool(Get(top, "NSAllowsArbitraryLoads"))
    IN  [k \in RowKeys |->
            IF k = "domain" THEN dname
            ELSE IF k = "effective_http_permitted"
                 THEN PyBool(PyOr(http_domain, http_global))
            ELSE IF k = "MinimumTLSVersionEffective"
                 THEN PyOr(raw["NSExceptionMinimumTLSVersion"],
                           raw["NSTemporaryExceptionMinimumTLSVersion"])
            ELSE raw[k]]

summarize_pl(p) ==
    LET ats  == GetDictOrEmpty(p, "NSAppTransportSecurity")
        exc  == GetDictOrEmpty(ats, "NSExceptionDomains")
        top  == [k \in Range(ATS_TOP_KEYS) |-> Get(ats, k)]
        keys == SortedKeys(DOMAIN exc)
    IN  [top_level |-> top,
         domains   |-> [i \in 1..Len(keys) |-> row_of(keys[i], exc[keys[i]], top)]]

-----------------------------------------------------------------------------
(* find_all_info_plists *)

\* fnmatch.fnmatch(name, pat) on POSIX: "*" matches any run of characters,
\* "/" included; every other pattern piece matches itself
RECURSIVE fnmatch(_, _)
fnmatch(name, pat) ==
    IF pat = <<>> THEN name = <<>>
    ELSE IF Head(pat) = "*"
         THEN \/ fnmatch(name, Tail(pat))
              \/ name # <<>> /\ fnmatch(Tail(name), pat)
    ELSE /\ name # <<>>
         /\ Head(name) = Head(pat)
         /\ fnmatch(Tail(name), Tail(pat))

pats == << <<"Payload", "/", "*", ".app", "/", "Info.plist">>,
           <<"Payload", "/", "*", "*", "/", "*", ".app", "/", "Info.plist">>,
           <<"Payload", "/", "*", "*", "/", "*", ".appex", "/", "Info.plist">> >>

\* any(fnmatch.fnmatch(name, p) for p in pats)
matches_any(name) == \E i \in 1..Len(pats) : fnmatch(name, pats[i])

\* the list comprehension of line 74
RECURSIVE matching(_)
matching(names) ==
    IF names = <<>> THEN <<>>
    ELSE IF matches_any(Head(names)) THEN <<Head(names)>> \o matching(Tail(names))
    ELSE matching(Tail(names))

\* the loop of lines 75-78, started with the given ordered list
RECURSIVE dedup(_, _)
dedup(out, acc) ==
    IF out = <<>> THEN acc
    ELSE IF Head(out) \in Range(acc) THEN dedup(Tail(out), acc)
    ELSE dedup(Tail(out), Append(acc, Head(out)))

find_all_info_plists_nodedup(names) == matching(names)

find_all_info_plists(names) == dedup(matching(names), <<>>)

-----------------------------------------------------------------------------
(* values the variables of an entry point that is not exercised keep *)

EmptySummary == [top_level |-> EmptyDict, domains |-> <<>>]

SummarizeIdle == pl = EmptyDict /\ summary = EmptySummary
LocateIdle    == ordered = <<>>
\* filter_domain is None (given FALSE) or a str (given TRUE, name its code points)
NothingPrinted == [format |-> "none", manifests |-> <<>>]
NoFilter      == [given |-> FALSE, name |-> <<>>]
RunIdle       == /\ ipa_kind = "none" /\ filter_domain = NoFilter /\ json_mode = FALSE
                 /\ plist_paths = <<>> /\ idx = 0 /\ decoded = <<>>
                 /\ results = <<>> /\ stderr = <<>> /\ stdout = NothingPrinted
                 /\ insecure = FALSE /\ rc = -1

-----------------------------------------------------------------------------
(* the manifests summarize_pl is applied to *)

\* "A" < "a" < "ab" < "b" in code point order
Names == {<<65>>, <<97>>, <<97, 98>>, <<98>>}

FlagVals == {"None", "True", "False", "0", "1", "'NO'"}
Bool3    == {"None", "True", "False"}
TlsVals  == {"None", "''", "0", "'TLSv1.0'", "'TLSv1.2'"}

\* the dict holding the keys of f whose value is declared
MkDict(f) == [k \in {x \in DOMAIN f : f[x] # "None"} |-> f[k]]

CfgHttp(h, l) ==
    MkDict([k \in Range(DOMAIN_KEYS) |->
        IF k = "NSExceptionAllowsInsecureHTTPLoads" THEN h
        ELSE IF k = "NSTemporaryExceptionAllowsInsecureHTTPLoads" THEN l
        ELSE "None"])

CfgTls(t, l) ==
    MkDict([k \in Range(DOMAIN_KEYS) |->
        IF k = "NSExceptionMinimumTLSVersion" THEN t
        ELSE IF k = "NSTemporaryExceptionMinimumTLSVersion" THEN l
        ELSE "None"])

CfgOther(s, ct, fs, lfs) ==
    MkDict([k \in Range(DOMAIN_KEYS) |->
        IF k = "NSIncludesSubdomains" THEN s
        ELSE IF k = "NSRequiresCertificateTransparency" THEN ct
        ELSE IF k = "NSExceptionRequiresForwardSecrecy" THEN fs
        ELSE IF k = "NSTemporaryExceptionRequiresForwardSecrecy" THEN lfs
        ELSE "None"])

SumCfgs ==
    {CfgHttp(h, l) : h \in FlagVals, l \in FlagVals}
      \cup {CfgTls(t, l) : t \in TlsVals, l \in TlsVals}
      \cup {CfgOther(s, ct, fs, lfs) : s \in Bool3, ct \in Bool3, fs \in Bool3, lfs \in Bool3}

\* a few entries, for the manifests that declare several domains
FewCfgs == {CfgHttp("True", "None"), CfgHttp("False", "None"), CfgTls("'TLSv1.2'", "None")}

SumExcs ==
    {EmptyDict}
      \cup UNION {[{n} -> SumCfgs] : n \in Names}
      \cup UNION {[D -> FewCfgs] : D \in {S \in SUBSET Names : Cardinality(S) >= 2}}

TopDict(a, w, m) ==
    MkDict([k \in Range(ATS_TOP_KEYS) |->
        IF k = "NSAllowsArbitraryLoads" THEN a
        ELSE IF k = "NSAllowsArbitraryLoadsInWebContent" THEN w
        ELSE m])

SumTops == {TopDict(a, w, m) : a \in FlagVals, w \in Bool3, m \in Bool3}

\* the security section: the bundle-wide flags plus, when hasExc, the domains mapping
AtsSection(top, hasExc, exc) ==
    IF hasExc THEN top @@ ("NSExceptionDomains" :> exc) ELSE top

Manifest(ats) == "NSAppTransportSecurity" :> ats

SumManifests ==
    {EmptyDict}
      \cup {Manifest(AtsSection(t, FALSE, EmptyDict)) : t \in SumTops}
      \cup {Manifest(AtsSection(t, TRUE, e)) : t \in SumTops, e \in SumExcs}

-----------------------------------------------------------------------------
(* summarize_pl applied to one manifest *)

InitSummarize ==
    /\ pl \in SumManifests
    /\ summary = EmptySummary
    /\ pc = "summarize_call"
    /\ namelist = <<>>
    /\ LocateIdle /\ RunIdle

Summarize ==
    /\ pc = "summarize_call"
    /\ summary' = summarize_pl(pl)
    /\ pc' = "summarize_done"
    /\ UNCHANGED <<pl, namelist, ordered, ipa_kind, filter_domain, json_mode,
                   plist_paths, idx, decoded, results, stderr, stdout, insecure, rc>>

NextSummarize == Summarize

SpecSummarize == InitSummarize /\ [][NextSummarize]_vars

-----------------------------------------------------------------------------
(* what the manifest given to summarize_pl declares *)

DeclAts(p) == IF "NSAppTransportSecurity" \in DOMAIN p
              THEN p["NSAppTransportSecurity"] ELSE EmptyDict
DeclExc(p) == IF "NSExceptionDomains" \in DOMAIN DeclAts(p)
              THEN DeclAts(p)["NSExceptionDomains"] ELSE EmptyDict
DeclTop(p, k) == IF k \in DOMAIN DeclAts(p) THEN DeclAts(p)[k] ELSE "None"
DeclDom(p, n, k) == IF k \in DOMAIN DeclExc(p)[n] THEN DeclExc(p)[n][k] ELSE "None"

\* a declared value that is neither undeclared, false, zero nor empty
Counts(v) == v \notin {"None", "False", "0", "''"}

Rows == {summary.domains[i] : i \in DOMAIN summary.domains}

\* C1 as stated: effective_http_permitted is true exactly when the canonical
\* flag, the legacy flag or the bundle-wide NSAllowsArbitraryLoads is an
\* explicit true.
C1_ExplicitTrueOnly ==
    pc = "summarize_done" =>
        \A r \in Rows :
            (r["effective_http_permitted"] = "True") <=>
                \/ DeclDom(pl, r["domain"], "NSExceptionAllowsInsecureHTTPLoads") = "True"
                \/ DeclDom(pl, r["domain"], "NSTemporaryExceptionAllowsInsecureHTTPLoads") = "True"
                \/ DeclTop(pl, "NSAllowsArbitraryLoads") = "True"

\* C1 amended: effective_http_permitted is a boolean, true exactly when the
\* canonical flag, the legacy flag or the bundle-wide NSAllowsArbitraryLoads
\* is declared with a truthy value (explicit true, a non-zero number, a
\* non-empty string); undeclared, false, 0 and '' count alike, and the two
\* other bundle-wide flags do not enter.
C1_EffectiveIsTruthyOr ==
    pc = "summarize_done" =>
        \A r \in Rows :
            /\ r["effective_http_permitted"] \in {"True", "False"}
            /\ (r["effective_http_permitted"] = "True") <=>
                \/ Counts(DeclDom(pl, r["domain"], "NSExceptionAllowsInsecureHTTPLoads"))
                \/ Counts(DeclDom(pl, r["domain"], "NSTemporaryExceptionAllowsInsecureHTTPLoads"))
                \/ Counts(DeclTop(pl, "NSAllowsArbitraryLoads"))

\* a domain that sets its insecure-HTTP flag to false under a bundle-wide
\* NSAllowsArbitraryLoads = true has been summarized as permitted
C1_Witness ==
    /\ pc = "summarize_done"
    /\ DeclTop(pl, "NSAllowsArbitraryLoads") = "True"
    /\ \E r \in Rows :
        /\ DeclDom(pl, r["domain"], "NSExceptionAllowsInsecureHTTPLoads") = "False"
        /\ DeclDom(pl, r["domain"], "NSTemporaryExceptionAllowsInsecureHTTPLoads") = "None"
        /\ r["effective_http_permitted"] = "True"

\* C9 as stated: MinimumTLSVersionEffective is the canonical key's value
\* whenever that key is present, whatever its value; otherwise the legacy
\* key's value; otherwise absent.
C9_CanonicalWheneverPresent ==
    pc = "summarize_done" =>
        \A r \in Rows :
            LET c == DeclDom(pl, r["domain"], "NSExceptionMinimumTLSVersion")
                l == DeclDom(pl, r["domain"], "NSTemporaryExceptionMinimumTLSVersion")
            IN  r["MinimumTLSVersionEffective"] = (IF c # "None" THEN c ELSE l)

\* C9 amended: MinimumTLSVersionEffective is the canonical key's value
\* whenever that key is present with a truthy (non-empty, non-zero) value;
\* otherwise it is the legacy key's value, absent when the legacy key is
\* absent.
C9_CanonicalWhenTruthy ==
    pc = "summarize_done" =>
        \A r \in Rows :
            LET c == DeclDom(pl, r["domain"], "NSExceptionMinimumTLSVersion")
                l == DeclDom(pl, r["domain"], "NSTemporaryExceptionMinimumTLSVersion")
            IN  r["MinimumTLSVersionEffective"] = (IF Counts(c) THEN c ELSE l)

\* both keys declared with different versions, the canonical one reported
C9_Witness ==
    /\ pc = "summarize_done"
    /\ \E r \in Rows :
        /\ DeclDom(pl, r["domain"], "NSExceptionMinimumTLSVersion") = "'TLSv1.2'"
        /\ DeclDom(pl, r["domain"], "NSTemporaryExceptionMinimumTLSVersion") = "'TLSv1.0'"
        /\ r["MinimumTLSVersionEffective"] = "'TLSv1.2'"

\* C10: the summary copies the manifest: top_level holds the three
\* bundle-wide flags with their declared value (absent when undeclared);
\* domains holds one record per declared domain name, in strictly ascending
\* name order; each record holds the eight raw flags with their declared
\* value; a manifest without security section gives all-absent and no
\* domain.
C10_FaithfulCopy ==
    pc = "summarize_done" =>
        /\ DOMAIN summary.top_level = Range(ATS_TOP_KEYS)
        /\ \A k \in Range(ATS_TOP_KEYS) : summary.top_level[k] = DeclTop(pl, k)
        /\ {r["domain"] : r \in Rows} = DOMAIN DeclExc(pl)
        /\ Len(summary.domains) = Cardinality(DOMAIN DeclExc(pl))
        /\ \A i \in 1..(Len(summary.domains) - 1) :
              StrLt(summary.domains[i]["domain"], summary.domains[i + 1]["domain"])
        /\ \A r \in Rows : \A k \in Range(DOMAIN_KEYS) :
              r[k] = DeclDom(pl, r["domain"], k)
        /\ pl = EmptyDict =>
              /\ \A k \in Range(ATS_TOP_KEYS) : summary.top_level[k] = "None"
              /\ summary.domains = <<>>

\* several domains summarized, an undeclared bundle-wide flag kept absent
\* and an explicit false kept false
C10_Witness ==
    /\ pc = "summarize_done"
    /\ Len(summary.domains) >= 3
    /\ DeclTop(pl, "NSAllowsArbitraryLoads") = "None"
    /\ summary.top_level["NSAllowsArbitraryLoads"] = "None"
    /\ summary.top_level["NSAllowsArbitraryLoadsForMedia"] = "False"
    /\ \E r \in Rows : r["NSExceptionAllowsInsecureHTTPLoads"] = "False"

-----------------------------------------------------------------------------
(* find_all_info_plists applied to one member listing *)

MaxDepth   == 3    \* intermediate directories between Payload/ and the bundle
MaxListing == 3    \* members of a listing

RECURSIVE Dirs(_)
Dirs(n) == IF n = 0 THEN <<>> ELSE <<"D", "/">> \o Dirs(n - 1)

\* <root>/D/.../D/A<suffix>/<file>, with n intermediate directories
Path(root, n, suffix, file) == <<root, "/">> \o Dirs(n) \o <<"A", suffix, "/", file>>

LocPaths ==
    {Path("Payload", n, sfx, "Info.plist") :
        n \in 0..MaxDepth, sfx \in {".app", ".appex", ".framework"}}
      \cup {Path("Other", 0, ".app", "Info.plist"),
            Path("Payload", 0, ".app", "Other.plist")}

Listings(paths, n) == UNION {[1..k -> paths] : k \in 0..n}

InitLocate ==
    /\ namelist \in Listings(LocPaths, MaxListing)
    /\ ordered = <<>>
    /\ pc = "locate_call"
    /\ SummarizeIdle /\ RunIdle

Locate ==
    /\ pc = "locate_call"
    /\ ordered' = find_all_info_plists(namelist)
    /\ pc' = "locate_done"
    /\ UNCHANGED <<pl, summary, namelist, ipa_kind, filter_domain, json_mode,
                   plist_paths, idx, decoded, results, stderr, stdout, insecure, rc>>

NextLocate == Locate

SpecLocate == InitLocate /\ [][NextLocate]_vars

\* the member path is Payload/<zero or more segments>/<name>.app/Info.plist
\* or Payload/<zero or more segments>/<name>.appex/Info.plist
IsManifestLocation(p) ==
    /\ Len(p) >= 6
    /\ p[1] = "Payload" /\ p[2] = "/"
    /\ p[Len(p) - 2] \in {".app", ".appex"}
    /\ p[Len(p) - 1] = "/" /\ p[Len(p)] = "Info.plist"

\* C7: find_all_info_plists returns exactly the members whose path matches
\* one of the three manifest-location patterns with ** read as zero or more
\* path segments: in particular Payload/<name>.appex/Info.plist is returned.
C7_ExactlyPatternMembers ==
    pc = "locate_done" =>
        Range(ordered) = {p \in Range(namelist) : IsManifestLocation(p)}

-----------------------------------------------------------------------------
(* run *)

\* if filter_domain:
filter_truthy(f) == f.given /\ f.name # <<>>

\* str.lower() on one code point
Lower(c) == IF c >= 65 /\ c <= 90 THEN c + 32 ELSE c

domain_matches_nocase(d, f) ==
    [i \in DOMAIN d["domain"] |-> Lower(d["domain"][i])] = [i \in DOMAIN f.name |-> Lower(f.name[i])]

\* d["domain"] == filter_domain
domain_matches(d, f) == d["domain"] = f.name

\* lines 120-122
apply_filter(rs, f) ==
    IF filter_truthy(f)
    THEN [i \in DOMAIN rs |->
            [rs[i] EXCEPT !.domains = SelectSeq(@, LAMBDA d : domain_matches(d, f))]]
    ELSE rs

any_insecure_firstOnly(rs) ==
    rs # <<>> /\ \E j \in DOMAIN rs[1].domains :
                    Truthy(rs[1].domains[j]["effective_http_permitted"])

\* line 124
any_insecure(rs) ==
    \E i \in DOMAIN rs : \E j \in DOMAIN rs[i].domains :
        Truthy(rs[i].domains[j]["effective_http_permitted"])

Diag(kind, path) == [kind |-> kind, path |-> path]

MaxMembers == 3    \* members of the archive run is given

\* Payload/A.app/Info.plist, Payload/D/A.app/Info.plist,
\* Payload/D/A.appex/Info.plist, Payload/A.appex/Info.plist
RunPaths == {Path("Payload", 0, ".app", "Info.plist"),
             Path("Payload", 1, ".app", "Info.plist"),
             Path("Payload", 1, ".appex", "Info.plist"),
             Path("Payload", 0, ".appex", "Info.plist")}

\* domain names "A" and "a"
RunExcs == {(<<65>> :> CfgHttp("True", "None")),
            (<<97>> :> CfgHttp("False", "None")),
            (<<65>> :> CfgHttp("True", "None")) @@ (<<97>> :> CfgHttp("False", "None"))}

\* no security section; NSAllowsArbitraryLoads = true without, with an empty
\* and with a non-empty NSExceptionDomains; exception domains only
RunManifests ==
    {EmptyDict,
     Manifest(AtsSection(TopDict("True", "None", "None"), FALSE, EmptyDict)),
     Manifest(AtsSection(TopDict("True", "None", "None"), TRUE, EmptyDict)),
     Manifest(AtsSection(TopDict("True", "None", "None"), TRUE,
                         (<<97>> :> CfgHttp("False", "None"))))}
      \cup {Manifest(AtsSection(TopDict("None", "None", "None"), TRUE, e)) : e \in RunExcs}

\* None, "", "a"
Filters == {NoFilter,
            [given |-> TRUE, name |-> <<>>],
            [given |-> TRUE, name |-> <<97>>]}

InitRun ==
    /\ ipa_kind \in {"missing", "notzip", "unreadable", "zip"}
    /\ namelist \in (IF ipa_kind = "zip" THEN Listings(RunPaths, MaxMembers) ELSE {<<>>})
    /\ filter_domain \in Filters
    /\ json_mode \in BOOLEAN
    /\ pc = "run_open"
    /\ plist_paths = <<>> /\ idx = 0 /\ decoded = <<>>
    /\ results = <<>> /\ stderr = <<>> /\ stdout = NothingPrinted
    /\ insecure = FALSE /\ rc = -1
    /\ SummarizeIdle /\ LocateIdle

\* zipfile.ZipFile(ipa_path) raises FileNotFoundError or BadZipFile: lines 116-118
OpenFails ==
    /\ pc = "run_open"
    /\ ipa_kind \in {"missing", "notzip"}
    /\ stderr' = Append(stderr, Diag("Error opening IPA", <<>>))
    /\ rc' = 3
    /\ pc' = "run_returned"
    /\ UNCHANGED <<pl, summary, namelist, ordered, ipa_kind, filter_domain, json_mode,
                   plist_paths, idx, decoded, results, stdout, insecure>>

\* zipfile.ZipFile(ipa_path) raises PermissionError, which line 116 does not
\* catch: it leaves run and main, and the interpreter prints the traceback
\* and exits with status 1
OpenRaises ==
    /\ pc = "run_open"
    /\ ipa_kind = "unreadable"
    /\ stderr' = Append(stderr, Diag("Traceback", <<>>))
    /\ rc' = 1
    /\ pc' = "run_raised"
    /\ UNCHANGED <<pl, summary, namelist, ordered, ipa_kind, filter_domain, json_mode,
                   plist_paths, idx, decoded, results, stdout, insecure>>

\* lines 102-106, no manifest located
LocateNone ==
    /\ pc = "run_open"
    /\ ipa_kind = "zip"
    /\ find_all_info_plists(namelist) = <<>>
    /\ plist_paths' = <<>>
    /\ stderr' = Append(stderr, Diag("Info.plist not found in IPA.", <<>>))
    /\ rc' = 3
    /\ pc' = "run_returned"
    /\ UNCHANGED <<pl, summary, namelist, ordered, ipa_kind, filter_domain, json_mode,
                   idx, decoded, results, stdout, insecure>>

\* lines 102-107, some manifest located
LocateSome ==
    /\ pc = "run_open"
    /\ ipa_kind = "zip"
    /\ find_all_info_plists(namelist) # <<>>
    /\ plist_paths' = find_all_info_plists(namelist)
    /\ results' = <<>>
    /\ idx' = 1
    /\ pc' = "run_parse"
    /\ UNCHANGED <<pl, summary, namelist, ordered, ipa_kind, filter_domain, json_mode,
                   decoded, stderr, stdout, insecure, rc>>

ParseFails_abort ==
    /\ pc = "run_parse"
    /\ idx <= Len(plist_paths)
    /\ decoded' = Append(decoded, [ok |-> FALSE, tree |-> EmptyDict])
    /\ stderr' = Append(stderr, Diag("Warning: Could not parse", plist_paths[idx]))
    /\ rc' = 3
    /\ pc' = "run_returned"
    /\ UNCHANGED <<pl, summary, namelist, ordered, ipa_kind, filter_domain, json_mode,
                   plist_paths, idx, results, stdout, insecure>>

\* lines 108-113: the member read does not decode
ParseFails ==
    /\ pc = "run_parse"
    /\ idx <= Len(plist_paths)
    /\ decoded' = Append(decoded, [ok |-> FALSE, tree |-> EmptyDict])
    /\ stderr' = Append(stderr, Diag("Warning: Could not parse", plist_paths[idx]))
    /\ idx' = idx + 1
    /\ UNCHANGED <<pl, summary, namelist, ordered, ipa_kind, filter_domain, json_mode,
                   pc, plist_paths, results, stdout, insecure, rc>>

\* lines 108-115: the member read decodes to the tree m
ParseOk ==
    /\ pc = "run_parse"
    /\ idx <= Len(plist_paths)
    /\ \E m \in RunManifests :
        /\ decoded' = Append(decoded, [ok |-> TRUE, tree |-> m])
        /\ results' = Append(results,
                             [info_plist |-> plist_paths[idx],
                              top_level  |-> summarize_pl(m).top_level,
                              domains    |-> summarize_pl(m).domains])
    /\ idx' = idx + 1
    /\ UNCHANGED <<pl, summary, namelist, ordered, ipa_kind, filter_domain, json_mode,
                   pc, plist_paths, stderr, stdout, insecure, rc>>

\* what both output modes list: each result's info_plist, in list order
Shown(rs) == [i \in DOMAIN rs |-> rs[i].info_plist]

\* lines 120-128
FinishJson ==
    /\ pc = "run_parse"
    /\ idx > Len(plist_paths)
    /\ json_mode
    /\ results' = apply_filter(results, filter_domain)
    /\ insecure' = any_insecure(results')
    /\ stdout' = [format |-> "json", manifests |-> Shown(results')]
    /\ rc' = IF insecure' THEN 2 ELSE 0
    /\ pc' = "run_returned"
    /\ UNCHANGED <<pl, summary, namelist, ordered, ipa_kind, filter_domain, json_mode,
                   plist_paths, idx, decoded, stderr>>

\* lines 120-124 and 130-157
FinishText ==
    /\ pc = "run_parse"
    /\ idx > Len(plist_paths)
    /\ ~json_mode
    /\ results' = apply_filter(results, filter_domain)
    /\ insecure' = any_insecure(results')
    /\ stdout' = [format |-> "text", manifests |-> Shown(results')]
    /\ rc' = IF insecure' THEN 2 ELSE 0
    /\ pc' = "run_returned"
    /\ UNCHANGED <<pl, summary, namelist, ordered, ipa_kind, filter_domain, json_mode,
                   plist_paths, idx, decoded, stderr>>

Next ==
    \/ OpenFails
    \/ OpenRaises
    \/ LocateNone
    \/ LocateSome
    \/ ParseFails
    \/ ParseOk
    \/ FinishJson
    \/ FinishText

Init == InitRun

Spec == Init /\ [][Next]_vars

-----------------------------------------------------------------------------
(* what a finished run is compared against *)

\* run returned after the archive was opened and a manifest member located
Evaluated == pc = "run_returned" /\ ipa_kind = "zip" /\ plist_paths # <<>>

\* the located members, of those read so far, that decoded: paths and trees
RECURSIVE OkPaths(_)
OkPaths(i) ==
    IF i > Len(decoded) THEN <<>>
    ELSE (IF decoded[i].ok THEN <<plist_paths[i]>> ELSE <<>>) \o OkPaths(i + 1)

RECURSIVE OkTrees(_)
OkTrees(i) ==
    IF i > Len(decoded) THEN <<>>
    ELSE (IF decoded[i].ok THEN <<decoded[i].tree>> ELSE <<>>) \o OkTrees(i + 1)

\* one diagnostic per located member that did not decode, in order
RECURSIVE FailDiags(_)
FailDiags(i) ==
    IF i > Len(decoded) THEN <<>>
    ELSE (IF decoded[i].ok THEN <<>>
          ELSE <<Diag("Warning: Could not parse", plist_paths[i])>>) \o FailDiags(i + 1)

\* the domain records summarize_pl produces from the decoded manifests
ProducedRecords ==
    UNION {Range(summarize_pl(decoded[i].tree).domains) : i \in {x \in DOMAIN decoded : decoded[x].ok}}

NonEmptyFilter == filter_domain.given /\ filter_domain.name # <<>>

\* C2: with one manifest whose NSAllowsArbitraryLoads is an explicit true
\* (and no domain filter), run returns 2 whatever the exception-domains
\* mapping holds, the empty mapping and an absent key included.
C2_ArbitraryLoadsAlwaysInsecure ==
    (/\ Evaluated
     /\ ~filter_domain.given
     /\ Len(plist_paths) = 1
     /\ decoded[1].ok
     /\ DeclTop(decoded[1].tree, "NSAllowsArbitraryLoads") = "True")
        => rc = 2

\* C3 as stated: a run that reaches evaluation returns 2 if and only if some
\* domain record of some decoded manifest has effective_http_permitted true,
\* and 0 otherwise.
C3_InsecureIffAnyRecord ==
    Evaluated =>
        rc = (IF \E r \in ProducedRecords : r["effective_http_permitted"] = "True"
              THEN 2 ELSE 0)

\* C3 amended: a run that reaches evaluation returns 2 if and only if some
\* domain record of some decoded manifest that the domain filter retains
\* (every record when the filter is None or empty) has
\* effective_http_permitted true, and 0 otherwise, in both output modes.
C3_InsecureIffAnyRetainedRecord ==
    Evaluated =>
        rc = (IF \E r \in ProducedRecords :
                    /\ r["effective_http_permitted"] = "True"
                    /\ NonEmptyFilter => r["domain"] = filter_domain.name
              THEN 2 ELSE 0)

\* the main app's manifest permits nothing, a later manifest does: exit 2
C3_Witness ==
    /\ Evaluated
    /\ Len(results) >= 2
    /\ \A j \in DOMAIN results[1].domains :
          results[1].domains[j]["effective_http_permitted"] = "False"
    /\ \E j \in DOMAIN results[2].domains :
          results[2].domains[j]["effective_http_permitted"] = "True"
    /\ rc = 2

\* C4: of n located members of which k do not decode, every one is read, k
\* diagnostics are emitted and n-k summaries produced, in archive order, one
\* per member that decoded; the verdict comes from those summaries; when
\* k = n the result list is empty and the exit code is 0.
C4_DecodeFailureSkipped ==
    Evaluated =>
        LET n     == Len(plist_paths)
            k     == Cardinality({i \in DOMAIN decoded : ~decoded[i].ok})
            trees == OkTrees(1)
        IN  /\ Len(decoded) = n
            /\ stderr = FailDiags(1)
            /\ Len(stderr) = k
            /\ Len(results) = n - k
            /\ Shown(results) = OkPaths(1)
            /\ \A j \in DOMAIN results :
                  LET s == summarize_pl(trees[j])
                  IN  /\ results[j].top_level = s.top_level
                      /\ Range(results[j].domains) \subseteq Range(s.domains)
            /\ rc = (IF \E j \in DOMAIN results : \E r \in Range(results[j].domains) :
                           r["effective_http_permitted"] = "True"
                     THEN 2 ELSE 0)
            /\ k = n => results = <<>> /\ rc = 0

\* one corrupted manifest between two valid ones: two summaries, one diagnostic
C4_Witness ==
    /\ Evaluated
    /\ Len(plist_paths) = 3
    /\ decoded[1].ok /\ ~decoded[2].ok /\ decoded[3].ok
    /\ Len(results) = 2
    /\ Len(stderr) = 1

\* C5: every run ends with exit code 3 when evaluation was prevented (archive
\* missing, unreadable, not a zip, or without manifest member), then without
\* any output and with a diagnostic, and with 0 or 2 otherwise.
C5_ThreeExitCodes ==
    pc \in {"run_returned", "run_raised"} =>
        /\ rc \in {0, 2, 3}
        /\ (ipa_kind \in {"missing", "notzip", "unreadable"} \/ plist_paths = <<>>) =>
              /\ rc = 3
              /\ results = <<>>
              /\ stdout = NothingPrinted
              /\ stderr # <<>>
        /\ (ipa_kind = "zip" /\ plist_paths # <<>>) => rc \in {0, 2}

\* the records of the j-th summary that carry the filter's name
RecordsNamed(j) ==
    SelectSeq(summarize_pl(OkTrees(1)[j]).domains,
              LAMBDA d : d["domain"] = filter_domain.name)

FilterOutcome ==
    /\ \A j \in DOMAIN results :
          /\ results[j].domains = RecordsNamed(j)
          /\ Len(results[j].domains) <= 1
    /\ rc = (IF \E j \in DOMAIN results : \E r \in Range(RecordsNamed(j)) :
                   r["effective_http_permitted"] = "True"
             THEN 2 ELSE 0)
    /\ (\A r \in ProducedRecords : r["domain"] # filter_domain.name) =>
          /\ \A j \in DOMAIN results : results[j].domains = <<>>
          /\ rc = 0

\* C6 as stated: whenever a domain filter is supplied, each manifest's
\* domain list holds exactly its records named exactly like the filter, at
\* most one; the verdict comes from the retained records; a name absent from
\* every manifest gives empty lists and exit code 0.
C6_FilterSupplied ==
    (Evaluated /\ filter_domain.given) => FilterOutcome

\* C6 amended: the same, whenever a non-empty domain filter is supplied (an
\* empty filter string filters nothing).
C6_FilterNonEmpty ==
    (Evaluated /\ NonEmptyFilter) => FilterOutcome

\* a filter name no manifest declares, while an unfiltered record permits
\* HTTP: empty domain lists and exit code 0
C6_Witness ==
    /\ Evaluated
    /\ NonEmptyFilter
    /\ results # <<>>
    /\ \E r \in ProducedRecords : r["effective_http_permitted"] = "True"
    /\ \A r \in ProducedRecords : r["domain"] # filter_domain.name
    /\ \A j \in DOMAIN results : results[j].domains = <<>>
    /\ rc = 0

FirstIndex(seq, x) == CHOOSE i \in DOMAIN seq : seq[i] = x /\ \A j \in 1..(i - 1) : seq[j] # x

\* the member paths the three patterns accept, read as fnmatch reads them:
\* Payload/<anything>.app/Info.plist, and Payload/<anything>.appex/Info.plist
\* with a "/" between Payload/ and the bundle name
LocatedShape(p) ==
    /\ Len(p) >= 5
    /\ p[1] = "Payload" /\ p[2] = "/"
    /\ p[Len(p) - 1] = "/" /\ p[Len(p)] = "Info.plist"
    /\ \/ p[Len(p) - 2] = ".app"
       \/ p[Len(p) - 2] = ".appex" /\ \E i \in 3..(Len(p) - 3) : p[i] = "/"

\* C8: the located list has no duplicate, holds the located members of the
\* listing ordered by their first occurrence in the archive's member order,
\* and run summarizes and prints the manifests in that order.
C8_FirstSeenOrderNoDuplicates ==
    (pc \in {"run_parse", "run_returned"} /\ ipa_kind = "zip") =>
        /\ \A i, j \in DOMAIN plist_paths : plist_paths[i] = plist_paths[j] => i = j
        /\ Range(plist_paths) = {p \in Range(namelist) : LocatedShape(p)}
        /\ \A i, j \in DOMAIN plist_paths :
              i < j => FirstIndex(namelist, plist_paths[i]) < FirstIndex(namelist, plist_paths[j])
        /\ Shown(results) = OkPaths(1)
        /\ Evaluated => stdout.manifests = OkPaths(1)

\* a listing that repeats a member and is not in sorted order
\* (Payload/D/A.appex/Info.plist before Payload/A.app/Info.plist), printed
\* as located
C8_Witness ==
    /\ Evaluated
    /\ \E i, j \in DOMAIN namelist : i < j /\ namelist[i] = namelist[j] /\ LocatedShape(namelist[i])
    /\ plist_paths = <<Path("Payload", 1, ".appex", "Info.plist"),
                       Path("Payload", 0, ".app", "Info.plist")>>
    /\ stdout.manifests = plist_paths

====
